---------------------------- MODULE Spec2Model ----------------------------
(***************************************************************************)
(* Model of nengolib/signal/lyapunov.py.                                   *)
(*                                                                         *)
(* Spec      : one call of l1_norm (lines 124-223), statement by           *)
(*             statement.  Real quantities are exact rationals: the bounds *)
(*             L, U and the sums of the discretized response are integers  *)
(*             (multiples of one fixed unit), T, dt, the estimate and the  *)
(*             half-width are pairs <<numerator, denominator>>.  Values    *)
(*             produced by collaborators that are not part of this file    *)
(*             (dcgain, eig, fminbound, cont2discrete, impulse) are drawn  *)
(*             from bounded sets.                                          *)
(* SpecGram  : one call of _H2P, control_gram, observe_gram or state_norm  *)
(*             (lines 14-64) on a 2-state system with integer matrices.    *)
(***************************************************************************)
EXTENDS Integers, Sequences, FiniteSets, TLC

VARIABLES
    pc,          \* position of the call
    analog,      \* sys.analog
    eigs,        \* real parts of eig(A)[0]
    rtol,        \* argument rtol, a rational <<num, den>>
    max_length,  \* argument max_length
    alpha,       \* line 156
    G0,          \* line 164, signed
    D,           \* line 155, signed feedthrough
    L, U,        \* lines 178, 195, 217
    N,           \* lines 179, 219
    T,           \* lines 180, 221, a rational <<num, den>>
    dt,          \* line 185, value used by the last iteration
    k,           \* number of completed loop iterations
    prev,        \* L, U, T, dt before the last iteration and its eq (26) comparison
    ret,         \* returned value
    err,         \* raised exception
    gram         \* state of a call of the gramian / state-norm functions

l1vars == <<pc, analog, eigs, rtol, max_length, alpha, G0, D, L, U, N, T, dt,
            k, prev, ret, err>>
vars == <<l1vars, gram>>

---------------------------------------------------------------------------
(* Bounds of the model *)

MaxDoublings == 2     \* max_length ranges up to 16 * 2^MaxDoublings
MaxVal == 1           \* |G0|, the sums over y and U_tail are <= MaxVal, fopt <= MaxVal + 1
MaxFeed == 1          \* |D| <= MaxFeed
MaxRtol == 1          \* rtol in {0/RtolDen .. MaxRtol/RtolDen}
RtolDen == 4
MaxEig == 1           \* eigenvalue real parts in -2..MaxEig

N0 == 16              \* line 179: N = 2**4

---------------------------------------------------------------------------
(* Arithmetic helpers *)

Abs(x) == IF x < 0 THEN -x ELSE x
Max(a, b) == IF a >= b THEN a ELSE b
Min(a, b) == IF a <= b THEN a ELSE b

RECURSIVE Pow2(_)
Pow2(n) == IF n <= 0 THEN 1 ELSE 2 * Pow2(n - 1)

SetMax(S) == CHOOSE x \in S : \A y \in S : y <= x

\* Rationals <<num, den>> with den > 0
RatEq(p, q) == p[1] * q[2] = q[1] * p[2]
RatLeq(p, q) == p[1] * q[2] <= q[1] * p[2]

\* IEEE-754 quotient num / den kept as the pair <<num, den>>, den >= 0:
\* x/0 is +inf for x > 0, -inf for x < 0 and nan for x = 0.
IsNan(q) == q[2] = 0 /\ q[1] = 0
\* q >= r for a finite rational r; false for nan
FloatGE(q, r) ==
    IF q[2] = 0 THEN q[1] > 0
    ELSE q[1] * r[2] >= r[1] * q[2]
\* p <= q between two such quotients; any comparison with nan is false
FloatLE(p, q) ==
    IF IsNan(p) \/ IsNan(q) THEN FALSE
    ELSE IF p[2] = 0 THEN (p[1] < 0 \/ (q[2] = 0 /\ q[1] > 0))
    ELSE IF q[2] = 0 THEN q[1] > 0
    ELSE p[1] * q[2] <= q[1] * p[2]

---------------------------------------------------------------------------
(* l1_norm *)

\* marks a local not yet assigned: a value outside every range used
NoVal == -(100 + MaxVal)

\* line 182 / 223: .5 * (U - L) / L
HalfWidth(l, u) == <<u - l, 2 * l>>

\* line 182: while N <= max_length and .5 * (U - L) / L >= rtol
LoopGuard_noCeiling(n, maxlen, l, u, r) == FloatGE(HalfWidth(l, u), r)
LoopGuard(n, maxlen, l, u, r) ==
    n <= maxlen /\ FloatGE(HalfWidth(l, u), r)

\* line 156: alpha = np.max(eig(A)[0].real)
Alpha(es) == SetMax(es)

\* line 157: if alpha >= 0
Unstable_strict(a) == a > 0
Unstable(a) == a >= 0

\* line 194: L_tail = abs(G0 - np.sum(y))
LTail(g0, sum_y) == Abs(g0 - sum_y)

\* line 195: L = max(L, L_impulse + L_tail)
NewL_noMax(l, L_impulse, L_tail) == L_impulse + L_tail
NewL(l, L_impulse, L_tail) == Max(l, L_impulse + L_tail)

\* line 217: U = max(min(U, U_impulse + U_tail), L)
NewU_noClip(u, U_impulse, U_tail, l) == Min(u, U_impulse + U_tail)
NewU_noMin(u, U_impulse, U_tail, l) == Max(U_impulse + U_tail, l)
NewU(u, U_impulse, U_tail, l) == Max(Min(u, U_impulse + U_tail), l)

\* line 219: N *= 2
NewN(n) == n * 2

\* lines 220-221: if U_impulse - L_impulse < U_tail - L_tail: T *= 2
NewT_leq(t, U_impulse, L_impulse, U_tail, L_tail) ==
    IF U_impulse - L_impulse <= U_tail - L_tail THEN <<2 * t[1], t[2]>> ELSE t
NewT(t, U_impulse, L_impulse, U_tail, L_tail) ==
    IF U_impulse - L_impulse < U_tail - L_tail THEN <<2 * t[1], t[2]>> ELSE t

\* line 185: dt = T / N
Dt(t, n) == <<t[1], t[2] * n>>

\* line 223: (U + L) / 2 + abs(D)
Estimate_noHalf(l, u, d) == <<2 * (u + l) + 2 * Abs(d), 2>>
Estimate(l, u, d) == <<(u + l) + 2 * Abs(d), 2>>

NoPrev == [L |-> NoVal, U |-> NoVal, T |-> <<0, 1>>, dt |-> <<0, 1>>,
           cmp |-> 0]
NoGram == [op |-> "none"]

\* sign of x
Sgn(x) == IF x < 0 THEN -1 ELSE IF x = 0 THEN 0 ELSE 1

MaxLengths ==
    {N0 * Pow2(e) - 1 : e \in 0..MaxDoublings} \cup {N0 * Pow2(MaxDoublings)}

\* the call l1_norm(sys, rtol, max_length)
Init ==
    /\ pc = "call"
    /\ analog \in BOOLEAN
    /\ eigs \in (SUBSET (-2..MaxEig)) \ {{}}
    /\ rtol \in {<<r, RtolDen>> : r \in 0..MaxRtol}
    /\ max_length \in MaxLengths
    /\ alpha = NoVal /\ G0 = NoVal /\ D = NoVal
    /\ L = NoVal /\ U = NoVal /\ N = NoVal
    /\ T = <<0, 1>> /\ dt = <<0, 1>>
    /\ k = 0
    /\ prev = NoPrev
    /\ ret = <<>>
    /\ err = [type |-> "none"]
    /\ gram = NoGram

\* lines 149-151
l1_check_analog ==
    /\ pc = "call"
    /\ IF ~analog
         THEN /\ pc' = "raised"
              /\ err' = [type |-> "ValueError", what |-> "must be analog"]
         ELSE /\ pc' = "eig"
              /\ err' = err
    /\ UNCHANGED <<analog, eigs, rtol, max_length, alpha, G0, D, L, U, N, T,
                   dt, k, prev, ret, gram>>

\* lines 155-159
l1_check_stable ==
    /\ pc = "eig"
    /\ alpha' = Alpha(eigs)
    /\ IF Unstable(alpha')
         THEN /\ pc' = "raised"
              /\ err' = [type |-> "ValueError", what |-> "unstable eigenvalue",
                         value |-> alpha']
         ELSE /\ pc' = "setup"
              /\ err' = err
    /\ UNCHANGED <<analog, eigs, rtol, max_length, G0, D, L, U, N, T,
                   dt, k, prev, ret, gram>>

\* lines 164-180: G0 = dcgain - D, fopt from fminbound, then L, U, N, T.
\* |G0| is the integral of the response and fopt the minimum of the bound
\* eq (39) on the integral of its absolute value, so |G0| <= fopt.
l1_setup ==
    /\ pc = "setup"
    /\ \E g0 \in -MaxVal..MaxVal, d \in -MaxFeed..MaxFeed :
       \E fopt \in Abs(g0)..(MaxVal + 1) :
          /\ G0' = g0
          /\ D' = d
          /\ L' = Abs(g0)
          /\ U' = fopt
    /\ N' = N0
    /\ T' = <<1, -alpha>>
    /\ pc' = "loop"
    /\ UNCHANGED <<analog, eigs, rtol, max_length, alpha, dt, k, prev, ret,
                   err, gram>>

\* lines 182-221: one pass of the loop body.  sum_y = np.sum(y),
\* L_impulse = np.sum(abs(y)) (positive: the loop is entered only for a
\* response that is not identically zero), U_impulse and U_tail come from
\* the refined interval method and fminbound.
l1_iterate ==
    /\ pc = "loop"
    /\ LoopGuard(N, max_length, L, U, rtol)
    /\ \E L_impulse \in 1..MaxVal, U_impulse \in 0..MaxVal, U_tail \in 0..MaxVal :
         \E sum_y \in -L_impulse..L_impulse :
           LET L_tail == LTail(G0, sum_y)
               newL == NewL(L, L_impulse, L_tail)
           IN  /\ dt' = Dt(T, N)
               /\ L' = newL
               /\ U' = NewU(U, U_impulse, U_tail, newL)
               /\ N' = NewN(N)
               /\ T' = NewT(T, U_impulse, L_impulse, U_tail, L_tail)
               /\ prev' = [L |-> L, U |-> U, T |-> T, dt |-> dt,
                           cmp |-> Sgn((U_impulse - L_impulse)
                                       - (U_tail - L_tail))]
    /\ k' = k + 1
    /\ UNCHANGED <<pc, analog, eigs, rtol, max_length, alpha, G0, D, ret, err,
                   gram>>

\* line 223
l1_return ==
    /\ pc = "loop"
    /\ ~LoopGuard(N, max_length, L, U, rtol)
    /\ ret' = <<Estimate(L, U, D), HalfWidth(L, U)>>
    /\ pc' = "returned"
    /\ UNCHANGED <<analog, eigs, rtol, max_length, alpha, G0, D, L, U, N, T,
                   dt, k, prev, err, gram>>

Next ==
    \/ l1_check_analog
    \/ l1_check_stable
    \/ l1_setup
    \/ l1_iterate
    \/ l1_return

Spec == Init /\ [][Next]_vars

---------------------------------------------------------------------------
(* Properties of l1_norm, checked under Spec *)

InLoopOrDone == pc \in {"loop", "returned"}

\* C1: the refinement loop runs at most log2(max_length/16)+1 times, i.e.
\* k completed iterations imply 16 * 2^(k-1) <= max_length, and none run when
\* max_length < 16; once N exceeds max_length no further iteration is possible
\* and the call returns its pair without raising, tolerance met or not.
C1_IterationBound ==
    /\ k >= 1 => N0 * Pow2(k - 1) <= max_length
    /\ max_length < N0 => k = 0
    /\ (pc = "loop" /\ N > max_length) =>
          (~ENABLED l1_iterate /\ ENABLED l1_return)
    /\ pc = "returned" => (err.type = "none" /\ Len(ret) = 2)

C1_Witness ==
    /\ pc = "returned"
    /\ N > max_length
    /\ k = MaxDoublings + 1
    /\ FloatGE(ret[2], rtol)

\* C2: at the end of every iteration L <= U, whatever the new candidates.
C2_LowerBelowUpper == (InLoopOrDone /\ k >= 1) => L <= U

C2_Witness == InLoopOrDone /\ k >= 1 /\ L > prev.U /\ U = L

\* C3 (as claimed): across every iteration L does not decrease and U does
\* not increase.
C3_Monotone ==
    (InLoopOrDone /\ k >= 1) => (L >= prev.L /\ U <= prev.U)

\* C3 (amended): L does not decrease; U does not increase unless the new L
\* exceeds the previous U, in which case U is raised to exactly the new L.
C3_MonotoneClipped ==
    (InLoopOrDone /\ k >= 1) =>
        /\ L >= prev.L
        /\ L <= prev.U => U <= prev.U
        /\ L > prev.U => U = L

C3_Witness ==
    InLoopOrDone /\ k >= 2 /\ L > prev.L /\ L > prev.U /\ U = L /\ prev.U > prev.L

\* C4 (as claimed): the returned estimate lies between the final L and U.
C4_EstimateWithinBounds ==
    pc = "returned" => (RatLeq(<<L, 1>>, ret[1]) /\ RatLeq(ret[1], <<U, 1>>))

\* C4 (amended): the returned estimate is the midpoint of the final bounds
\* shifted by |D|: L + |D| <= estimate <= U + |D|, zero iterations included;
\* so L <= estimate <= U when D = 0.
C4_EstimateWithinShiftedBounds ==
    pc = "returned" =>
        /\ L <= U
        /\ RatLeq(<<L + Abs(D), 1>>, ret[1])
        /\ RatLeq(ret[1], <<U + Abs(D), 1>>)
        /\ D = 0 => (RatLeq(<<L, 1>>, ret[1]) /\ RatLeq(ret[1], <<U, 1>>))

C4_Witness ==
    pc = "returned" /\ k = 0 /\ D # 0 /\ L < U /\ ~RatLeq(ret[1], <<U, 1>>)

\* C5: the relative half-width .5*(U-L)/L never increases from one iteration
\* to the next, and the value returned is the one of the final bounds; so a
\* run allowed more samples returns a half-width that is no larger.
C5_HalfWidthNonIncreasing ==
    /\ (InLoopOrDone /\ k >= 1) =>
          FloatLE(HalfWidth(L, U), HalfWidth(prev.L, prev.U))
    /\ pc = "returned" => ret[2] = HalfWidth(L, U)

C5_Witness ==
    /\ pc = "returned" /\ k >= 2
    /\ ~FloatLE(HalfWidth(prev.L, prev.U), ret[2])
    /\ prev.L > 0

\* C6: a non-analog system raises the non-analog ValueError before the
\* eigenvalues are looked at; an analog system with alpha >= 0 raises the
\* ValueError that carries alpha; in both cases no bound has been computed and
\* no iteration has run; an analog system with alpha < 0 raises neither.
C6_RejectsInvalidInput ==
    /\ pc = "raised" =>
          /\ err.type = "ValueError"
          /\ L = NoVal /\ U = NoVal /\ N = NoVal /\ k = 0
          /\ IF ~analog
               THEN err.what = "must be analog" /\ alpha = NoVal
               ELSE /\ err.what = "unstable eigenvalue"
                    /\ err.value = SetMax(eigs)
                    /\ SetMax(eigs) >= 0
    /\ ~analog => pc \in {"call", "raised"}
    /\ (analog /\ SetMax(eigs) >= 0) => pc \in {"call", "eig", "raised"}
    /\ (analog /\ SetMax(eigs) < 0) => pc # "raised"

C6_Witness ==
    pc = "raised" /\ analog /\ SetMax(eigs) = 0 /\ err.value = 0

\* C10: N = 16 * 2^k after k iterations; T = (-1/alpha) * 2^j with
\* 0 <= j <= k, doubled by an iteration exactly when that iteration had
\* U_impulse - L_impulse < U_tail - L_tail; the step dt = T/N of an iteration
\* is equal to or half of the step of the iteration before.
C10_Schedule ==
    InLoopOrDone =>
        /\ N = N0 * Pow2(k)
        /\ T[2] = -alpha
        /\ \E j \in 0..k : T[1] = Pow2(j)
        /\ k >= 1 =>
              /\ T = (IF prev.cmp < 0 THEN <<2 * prev.T[1], prev.T[2]>>
                                      ELSE prev.T)
              /\ RatEq(dt, <<prev.T[1], prev.T[2] * N0 * Pow2(k - 1)>>)
        /\ k >= 2 =>
              (RatEq(dt, prev.dt) \/ RatEq(<<2 * dt[1], dt[2]>>, prev.dt))

C10_Witness ==
    /\ InLoopOrDone /\ k >= 2
    /\ T[1] = 2 /\ prev.cmp = 0
    /\ RatEq(<<2 * dt[1], dt[2]>>, prev.dt)

---------------------------------------------------------------------------
(* Matrices: a matrix is a sequence of rows *)

Rows(X) == Len(X)
Cols(X) == Len(X[1])
Transpose(X) == [j \in 1..Cols(X) |-> [i \in 1..Rows(X) |-> X[i][j]]]

RECURSIVE SumTo(_, _)
SumTo(f, n) == IF n = 0 THEN 0 ELSE f[n] + SumTo(f, n - 1)

Dot(X, Y) ==
    [i \in 1..Rows(X) |->
        [j \in 1..Cols(Y) |->
            SumTo([m \in 1..Cols(X) |-> X[i][m] * Y[m][j]], Cols(X))]]
Plus(X, Y) == [i \in 1..Rows(X) |-> [j \in 1..Cols(X) |-> X[i][j] + Y[i][j]]]
Neg(X) == [i \in 1..Rows(X) |-> [j \in 1..Cols(X) |-> -X[i][j]]]
Zeros(n) == [i \in 1..n |-> [j \in 1..n |-> 0]]

---------------------------------------------------------------------------
(* Gramians and state norm, lines 14-64 *)

MaxP == 2    \* entries of a solution of a Lyapunov equation in -MaxP..MaxP

\* symmetric candidates; the right-hand side is symmetric in every call made
\* by this file, and so is the solution
Candidates ==
    {<<<<p, q>>, <<q, r>>>> : p \in -MaxP..MaxP, q \in -MaxP..MaxP,
                              r \in -MaxP..MaxP}

NoSolution == <<>>

\* scipy.linalg.solve_lyapunov(a, q): X with a X + X a^H = q
solve_lyapunov(a, q) ==
    LET S == {X \in Candidates : Plus(Dot(a, X), Dot(X, Transpose(a))) = q}
    IN  IF S = {} THEN NoSolution ELSE CHOOSE X \in S : TRUE

\* scipy.linalg.solve_discrete_lyapunov(a, q): X with a X a^H - X + q = 0
solve_discrete_lyapunov(a, q) ==
    LET S == {X \in Candidates :
                 Plus(Plus(Dot(Dot(a, X), Transpose(a)), Neg(X)), q)
                     = Zeros(Rows(a))}
    IN  IF S = {} THEN NoSolution ELSE CHOOSE X \in S : TRUE

\* lines 14-21
H2P_sameSign(A, B, isAnalog) ==
    IF isAnalog
      THEN solve_lyapunov(A, Dot(B, Transpose(B)))
      ELSE solve_discrete_lyapunov(A, Dot(B, Transpose(B)))
_H2P(A, B, isAnalog) ==
    IF isAnalog
      THEN solve_lyapunov(A, Neg(Dot(B, Transpose(B))))
      ELSE solve_discrete_lyapunov(A, Dot(B, Transpose(B)))

\* LinearSystem(sys): the adapted system; the argument is already in
\* state-space form here
LinearSystem(sys) == sys

\* lines 45-53
control_gram(sys) ==
    LET s == LinearSystem(sys) IN _H2P(s.A, s.B, s.analog)

\* lines 56-64
observe_gram_noTranspose(sys) ==
    LET s == LinearSystem(sys) IN _H2P(s.A, Transpose(s.C), s.analog)
observe_gram(sys) ==
    LET s == LinearSystem(sys)
    IN  _H2P(Transpose(s.A), Transpose(s.C), s.analog)

\* line 40: np.sqrt(P[np.diag_indices(len(P))]), each root kept symbolic
SqrtDiag(P) == [i \in 1..Len(P) |-> <<"sqrt", P[i][i]>>]

\* Python exception classes and their base class
BaseOf(c) ==
    CASE c = "NotImplementedError" -> "RuntimeError"
      [] c = "RuntimeError" -> "Exception"
      [] c = "TypeError" -> "Exception"
      [] c = "ValueError" -> "Exception"
      [] OTHER -> "BaseException"
RECURSIVE IsInstance(_, _)
IsInstance(c, cls) ==
    IF c = cls THEN TRUE
    ELSE IF c = "BaseException" THEN FALSE
    ELSE IsInstance(BaseOf(c), cls)

\* lines 24-42: state_norm(sys, norm='H2') called with keyword kw = value
\* ("default": no keyword given).  A keyword that is not a parameter is a
\* TypeError raised by the call itself.
state_norm(sys, kw, value) ==
    IF kw \notin {"default", "norm"}
      THEN [raised |-> TRUE, adapted |-> FALSE, solves |-> 0,
            err |-> [type |-> "TypeError",
                     what |-> "unexpected keyword argument"]]
    ELSE IF (IF kw = "default" THEN "H2" ELSE value) = "H2"
      THEN [raised |-> FALSE, adapted |-> TRUE, solves |-> 1,
            P |-> _H2P(LinearSystem(sys).A, LinearSystem(sys).B,
                      LinearSystem(sys).analog)]
    ELSE [raised |-> TRUE, adapted |-> FALSE, solves |-> 0,
          err |-> [type |-> "NotImplementedError",
                   what |-> "norm must be one of: H2"]]

AMatrices == {<<<<a, b>>, <<c, d>>>> : a \in -1..0, b \in -1..0,
                                       c \in -1..0, d \in -1..0}
Vectors == {<<2, 0>>, <<0, -2>>, <<1, 1>>}
ColumnOf(v) == <<<<v[1]>>, <<v[2]>>>>
RowOf(v) == <<v>>

Systems ==
    {[A |-> a, B |-> ColumnOf(b), C |-> RowOf(c), D |-> <<<<0>>>>,
      analog |-> g] :
        a \in AMatrices, b \in Vectors, c \in Vectors, g \in BOOLEAN}

\* the dual system (A^T, C^T, B^T, D^T)
Dual(sys) ==
    [A |-> Transpose(sys.A), B |-> Transpose(sys.C), C |-> Transpose(sys.B),
     D |-> Transpose(sys.D), analog |-> sys.analog]

Keywords == {<<"default", "H2">>, <<"norm", "H2">>, <<"norm", "None">>,
             <<"norm", "L1">>, <<"method", "None">>}

L1Idle ==
    /\ pc = "idle"
    /\ analog = FALSE /\ eigs = {} /\ rtol = <<0, 1>> /\ max_length = 0
    /\ alpha = NoVal /\ G0 = NoVal /\ D = NoVal
    /\ L = NoVal /\ U = NoVal /\ N = NoVal
    /\ T = <<0, 1>> /\ dt = <<0, 1>>
    /\ k = 0 /\ prev = NoPrev /\ ret = <<>> /\ err = [type |-> "none"]

\* one call of _H2P, control_gram, observe_gram or state_norm
InitGram ==
    /\ L1Idle
    /\ \E s \in Systems :
         \/ \E op \in {"_H2P", "control_gram", "observe_gram"} :
              gram = [op |-> op, pc |-> "call", sys |-> s,
                      kw |-> <<"default", "H2">>]
         \/ \E kv \in Keywords :
              gram = [op |-> "state_norm", pc |-> "call", sys |-> s, kw |-> kv]

Returned(P, wasAdapted) ==
    [gram EXCEPT !.pc = "returned"] @@
    [ret |-> P, adapted |-> wasAdapted, solves |-> 1]

call_H2P ==
    /\ gram.op = "_H2P" /\ gram.pc = "call"
    /\ LET P == _H2P(gram.sys.A, gram.sys.B, gram.sys.analog)
       IN  P # NoSolution /\ gram' = Returned(P, FALSE)
    /\ UNCHANGED l1vars

call_control_gram ==
    /\ gram.op = "control_gram" /\ gram.pc = "call"
    /\ LET P == control_gram(gram.sys)
       IN  P # NoSolution /\ gram' = Returned(P, TRUE)
    /\ UNCHANGED l1vars

call_observe_gram ==
    /\ gram.op = "observe_gram" /\ gram.pc = "call"
    /\ LET P == observe_gram(gram.sys)
       IN  P # NoSolution /\ gram' = Returned(P, TRUE)
    /\ UNCHANGED l1vars

call_state_norm ==
    /\ gram.op = "state_norm" /\ gram.pc = "call"
    /\ LET r == state_norm(gram.sys, gram.kw[1], gram.kw[2])
       IN  IF r.raised
             THEN gram' = [gram EXCEPT !.pc = "raised"] @@
                          [err |-> r.err, adapted |-> r.adapted,
                           solves |-> r.solves]
             ELSE /\ r.P # NoSolution
                  /\ gram' = [gram EXCEPT !.pc = "returned"] @@
                             [ret |-> SqrtDiag(r.P), adapted |-> r.adapted,
                              solves |-> r.solves]
    /\ UNCHANGED l1vars

NextGram ==
    \/ call_H2P
    \/ call_control_gram
    \/ call_observe_gram
    \/ call_state_norm

SpecGram == InitGram /\ [][NextGram]_vars

---------------------------------------------------------------------------
(* Properties of the gramian functions, checked under SpecGram *)

\* C7: every call of state_norm with an unsupported norm selection (among
\* them the test's state_norm(Alpha(0.1), method=None)) raises an error that
\* is a ValueError, as the test asserts, and adapts or solves nothing.
C7_InvalidNormRaisesValueError ==
    (/\ gram.op = "state_norm"
     /\ gram.pc # "call"
     /\ gram.kw \notin {<<"default", "H2">>, <<"norm", "H2">>}) =>
        /\ gram.pc = "raised"
        /\ IsInstance(gram.err.type, "ValueError")
        /\ ~gram.adapted /\ gram.solves = 0

\* C8: _H2P returns P with A P + P A^T + B B^T = 0 when analog and
\* A P A^T - P + B B^T = 0 when not.
C8_H2PSolvesSelectedEquation ==
    (gram.op = "_H2P" /\ gram.pc = "returned") =>
        LET A == gram.sys.A
            BBt == Dot(gram.sys.B, Transpose(gram.sys.B))
            P == gram.ret
        IN  IF gram.sys.analog
              THEN Plus(Plus(Dot(A, P), Dot(P, Transpose(A))), BBt) = Zeros(2)
              ELSE Plus(Plus(Dot(Dot(A, P), Transpose(A)), Neg(P)), BBt)
                       = Zeros(2)

C8_Witness ==
    /\ gram.op = "_H2P" /\ gram.pc = "returned"
    /\ ~gram.sys.analog
    /\ gram.sys.A # Transpose(gram.sys.A)
    /\ gram.ret # Zeros(2)

\* C9: observe_gram(sys) is control_gram of the dual system (A^T, C^T, B^T,
\* D^T) with the same analog flag; for an analog system the result Q of
\* observe_gram satisfies A^T Q + Q A = -C^T C and the result P of
\* control_gram satisfies A P + P A^T = -B B^T.
C9_GramDuality ==
    /\ (gram.op = "observe_gram" /\ gram.pc = "returned") =>
          LET A == gram.sys.A
              C == gram.sys.C
              Q == gram.ret
          IN  /\ Q = control_gram(Dual(gram.sys))
              /\ gram.sys.analog =>
                    Plus(Dot(Transpose(A), Q), Dot(Q, A))
                        = Neg(Dot(Transpose(C), C))
    /\ (gram.op = "control_gram" /\ gram.pc = "returned"
        /\ gram.sys.analog) =>
          LET A == gram.sys.A
              B == gram.sys.B
              P == gram.ret
          IN  Plus(Dot(A, P), Dot(P, Transpose(A)))
                  = Neg(Dot(B, Transpose(B)))

C9_Witness ==
    /\ gram.op = "observe_gram" /\ gram.pc = "returned"
    /\ gram.sys.analog
    /\ gram.sys.A # Transpose(gram.sys.A)
    /\ gram.ret # Zeros(2)
    /\ gram.ret # control_gram(gram.sys)

===========================================================================
